---------------------------- MODULE Spec2Model ----------------------------
(***************************************************************************)
(* A model of the rmt crate (src/src/lib.rs): the Marchenko-Pastur and     *)
(* Wigner density formulas, the Wishart and GOE samplers and the spectral  *)
(* statistics.                                                             *)
(*                                                                         *)
(* Numbers.  The crate computes in f64.  The model computes in a binary    *)
(* floating-point format of the same IEEE-754 kind, scaled down: PREC bits *)
(* of significand, largest exponent EMAX, smallest exponent 1 - EMAX,      *)
(* gradual underflow, round to nearest (ties to even), +inf, -inf and NaN. *)
(* A finite value is held as an integer count k of the smallest positive   *)
(* (subnormal) number, 2^(2 - EMAX - PREC); the real value is k / Scale.   *)
(* The sign of zero is not modelled: no definition below reads it except   *)
(* a division by zero, which takes the sign of the numerator.              *)
(***************************************************************************)
EXTENDS Integers, Naturals, Sequences, FiniteSets, TLC

\* f64: 53 bits of significand (scaled down)
PREC == 5
\* f64: largest exponent 1023 (scaled down)
EMAX == 3

\* units per 1.0
Scale == 2 ^ (PREC + EMAX - 2)
\* the largest finite value (f64::MAX), in units
MaxFinite == (2 ^ PREC - 1) * 2 ^ (2 * EMAX - 1)
\* the smallest positive normal value (f64::MIN_POSITIVE), in units
MinNormal == 2 ^ (PREC - 1)

Fin(k) == <<"fin", k>>
PInf == <<"inf", 1>>
NInf == <<"inf", -1>>
NaN == <<"nan", 0>>
Zero == Fin(0)
One == Fin(Scale)

IsNaN(x) == x[1] = "nan"
IsInf(x) == x[1] = "inf"
IsFinite(x) == x[1] = "fin"
Sgn(k) == IF k > 0 THEN 1 ELSE IF k < 0 THEN -1 ELSE 0
Abs(k) == IF k < 0 THEN -k ELSE k
\* the sign of a value that is not NaN: -1, 0 or 1
SignOf(x) == IF IsInf(x) THEN x[2] ELSE Sgn(x[2])
SignedInf(s) == IF s < 0 THEN NInf ELSE PInf

\* An operation takes its operands by value: each operation below is written
\* as an ...Of definition and applied through a set constructor, which
\* evaluates the operands once, before the operation is applied to them.

\* the exponent of the quantum of a magnitude whose integer part is f units:
\* the least s with f < 2^(PREC + s)
ShiftOf(f) == CHOOSE s \in 0..(PREC + 3 * EMAX) : f < 2 ^ (PREC + s) /\ (s = 0 \/ f >= 2 ^ (PREC + s - 1))
Shift(f) == CHOOSE res \in {ShiftOf(v) : v \in {f}} : TRUE

\* round half to even of a / d, for a >= 0 and d > 0
RoundHalfEvenOf(a, d) ==
    LET n == a \div d
        r == a % d
    IN  IF 2 * r > d THEN n + 1
        ELSE IF 2 * r < d THEN n
        ELSE n + (n % 2)
RoundHalfEven(a, d) ==
    CHOOSE res \in {RoundHalfEvenOf(v, w) : v \in {a}, w \in {d}} : TRUE

\* the value nearest to p / q units (q > 0): the rounding of every operation
RoundRatOf(p, q) ==
    LET a == Abs(p)
        Q == 2 ^ Shift(a \div q)
        k == RoundHalfEven(a, q * Q) * Q
    IN  IF k > MaxFinite THEN SignedInf(p) ELSE Fin(Sgn(p) * k)
RoundRat(p, q) ==
    CHOOSE res \in {RoundRatOf(v, w) : v \in {p}, w \in {q}} : TRUE

\* a literal num/den, and a usize converted by `as f64`
F(num, den) == RoundRat(num * Scale, den)
UsizeToF(n) == RoundRat(n * Scale, 1)

FNeg(x) == IF IsNaN(x) THEN NaN ELSE IF IsInf(x) THEN SignedInf(-x[2]) ELSE Fin(-x[2])
FAbs(x) == IF IsNaN(x) THEN NaN ELSE IF IsInf(x) THEN PInf ELSE Fin(Abs(x[2]))

FAddOf(x, y) ==
    IF IsNaN(x) \/ IsNaN(y) THEN NaN
    ELSE IF IsInf(x) /\ IsInf(y) THEN (IF x[2] = y[2] THEN x ELSE NaN)
    ELSE IF IsInf(x) THEN x
    ELSE IF IsInf(y) THEN y
    ELSE RoundRat(x[2] + y[2], 1)
FAdd(x, y) ==
    CHOOSE res \in {FAddOf(v, w) : v \in {x}, w \in {y}} : TRUE

FSub(x, y) == FAdd(x, FNeg(y))

FMulOf(x, y) ==
    IF IsNaN(x) \/ IsNaN(y) THEN NaN
    ELSE IF IsInf(x) \/ IsInf(y)
         THEN (IF SignOf(x) * SignOf(y) = 0 THEN NaN ELSE SignedInf(SignOf(x) * SignOf(y)))
    ELSE RoundRat(x[2] * y[2], Scale)
FMul(x, y) ==
    CHOOSE res \in {FMulOf(v, w) : v \in {x}, w \in {y}} : TRUE

FDivOf(x, y) ==
    IF IsNaN(x) \/ IsNaN(y) THEN NaN
    ELSE IF IsInf(x) THEN (IF IsInf(y) THEN NaN
                           ELSE SignedInf(x[2] * (IF y[2] < 0 THEN -1 ELSE 1)))
    ELSE IF IsInf(y) THEN Zero
    ELSE IF y[2] = 0 THEN (IF x[2] = 0 THEN NaN ELSE SignedInf(x[2]))
    ELSE RoundRat(Sgn(y[2]) * x[2] * Scale, Abs(y[2]))
FDiv(x, y) ==
    CHOOSE res \in {FDivOf(v, w) : v \in {x}, w \in {y}} : TRUE

\* the integer square root: the multiple of 32 below it, then the root itself
IsqrtFrom(a, lo) == CHOOSE r \in lo..(lo + 31) : r * r <= a /\ a < (r + 1) * (r + 1)
IsqrtOf(a) ==
    IsqrtFrom(a, 32 * (CHOOSE h \in 0..(2 ^ (PREC + 2 * EMAX)) :
                          (32 * h) * (32 * h) <= a /\ a < (32 * h + 32) * (32 * h + 32)))
Isqrt(a) == CHOOSE res \in {IsqrtOf(v) : v \in {a}} : TRUE

\* the multiple of the quantum Q nearest to the square root of a, whose
\* integer part is r
SqrtRoundOf(a, r) ==
    LET Q == 2 ^ Shift(r)
        n == r \div Q
        mid == (2 * n + 1) * (2 * n + 1) * Q * Q
        k == IF 4 * a > mid THEN n + 1
             ELSE IF 4 * a < mid THEN n
             ELSE n + (n % 2)
    IN  Fin(k * Q)
SqrtRound(a, r) ==
    CHOOSE res \in {SqrtRoundOf(v, w) : v \in {a}, w \in {r}} : TRUE

\* f64::sqrt, correctly rounded: NaN below zero
FSqrtOf(x) ==
    IF IsNaN(x) THEN NaN
    ELSE IF IsInf(x) THEN (IF x[2] > 0 THEN PInf ELSE NaN)
    ELSE IF x[2] < 0 THEN NaN
    ELSE SqrtRound(x[2] * Scale, Isqrt(x[2] * Scale))
FSqrt(x) == CHOOSE res \in {FSqrtOf(v) : v \in {x}} : TRUE

\* the comparisons of f64: every comparison with NaN is false
FLt(x, y) ==
    /\ ~IsNaN(x)
    /\ ~IsNaN(y)
    /\ IF IsInf(x) /\ IsInf(y) THEN x[2] < y[2]
       ELSE IF IsInf(x) THEN x[2] < 0
       ELSE IF IsInf(y) THEN y[2] > 0
       ELSE x[2] < y[2]
FGt(x, y) == FLt(y, x)
FEq(x, y) == ~IsNaN(x) /\ ~IsNaN(y) /\ x = y
FLe(x, y) == FLt(x, y) \/ FEq(x, y)

\* f64::min and f64::max: a NaN operand is ignored
FMin(x, y) == IF IsNaN(x) THEN y ELSE IF IsNaN(y) THEN x ELSE IF FLt(y, x) THEN y ELSE x
FMax(x, y) == IF IsNaN(x) THEN y ELSE IF IsNaN(y) THEN x ELSE IF FLt(x, y) THEN y ELSE x

FFloor(x) == IF IsFinite(x) THEN Fin((x[2] \div Scale) * Scale) ELSE x

\* usize::MAX (scaled down: above every bin count of the model)
UsizeMax == 65535
\* `x as usize`: NaN and negatives to 0, saturating at usize::MAX
AsUsize(x) ==
    IF IsNaN(x) THEN 0
    ELSE IF IsInf(x) THEN (IF x[2] > 0 THEN UsizeMax ELSE 0)
    ELSE IF x[2] < 0 THEN 0
    ELSE x[2] \div Scale


(***************************************************************************)
(* Density formulas                                                        *)
(***************************************************************************)
Two == F(2, 1)
Half == F(1, 2)
\* const PI: the f64 nearest to pi
PI == F(355, 113)

\* a variant that does not fold the ratio
EffectiveRatio_Unfolded(ratio) == ratio

\* let gamma = ratio.min(1.0 / ratio)
EffectiveRatio(ratio) == FMin(ratio, FDiv(One, ratio))
\* x.powi(2)
Powi2(x) == FMul(x, x)
LambdaPlus(gamma, sigma_sq) == FMul(sigma_sq, Powi2(FAdd(One, FSqrt(gamma))))
LambdaMinus(gamma, sigma_sq) == FMul(sigma_sq, Powi2(FSub(One, FSqrt(gamma))))

marchenko_pastur_density(lambda, ratio, sigma_sq) ==
    IF FLe(ratio, Zero) \/ FLe(lambda, Zero) THEN Zero
    ELSE LET gamma == EffectiveRatio(ratio)
             lambda_plus == LambdaPlus(gamma, sigma_sq)
             lambda_minus == LambdaMinus(gamma, sigma_sq)
         IN  IF FLt(lambda, lambda_minus) \/ FGt(lambda, lambda_plus) THEN Zero
             ELSE LET sqrt_term == FSqrt(FMul(FSub(lambda_plus, lambda),
                                              FSub(lambda, lambda_minus)))
                  IN  FDiv(sqrt_term,
                           FMul(FMul(FMul(FMul(Two, PI), sigma_sq), gamma), lambda))

marchenko_pastur_support(ratio, sigma_sq) ==
    LET gamma == EffectiveRatio(ratio)
    IN  <<LambdaMinus(gamma, sigma_sq), LambdaPlus(gamma, sigma_sq)>>

wigner_semicircle_density(lambda, sigma) ==
    LET r == FMul(Two, sigma)
    IN  IF FGt(FAbs(lambda), r) THEN Zero
        ELSE FMul(FDiv(Two, FMul(FMul(PI, r), r)),
                  FSqrt(FSub(FMul(r, r), FMul(lambda, lambda))))

(***************************************************************************)
(* Spectral statistics                                                     *)
(***************************************************************************)
Min(a, b) == IF a < b THEN a ELSE b

\* a variant that tests the spacings with >= instead of >
SpacingRatioAt_NonStrict(eigenvalues, i) ==
    LET s1 == FSub(eigenvalues[i + 2], eigenvalues[i + 1])
        s2 == FSub(eigenvalues[i + 3], eigenvalues[i + 2])
    IN  IF FLe(Zero, s1) /\ FLe(Zero, s2)
        THEN <<FDiv(FMin(s1, s2), FMax(s1, s2))>>
        ELSE <<>>

\* the ratio pushed for index i (0-based), or no ratio
SpacingRatioAt(eigenvalues, i) ==
    LET s1 == FSub(eigenvalues[i + 2], eigenvalues[i + 1])
        s2 == FSub(eigenvalues[i + 3], eigenvalues[i + 2])
    IN  IF FGt(s1, Zero) /\ FGt(s2, Zero)
        THEN <<FDiv(FMin(s1, s2), FMax(s1, s2))>>
        ELSE <<>>

\* the loop `for i in 0..(n - 2)`, from index i on
RECURSIVE SpacingLoop(_, _)
SpacingLoop(eigenvalues, i) ==
    IF i >= Len(eigenvalues) - 2 THEN <<>>
    ELSE SpacingRatioAt(eigenvalues, i) \o SpacingLoop(eigenvalues, i + 1)

level_spacing_ratios(eigenvalues) ==
    IF Len(eigenvalues) < 3 THEN <<>> ELSE SpacingLoop(eigenvalues, 0)

\* iter().sum::<f64>(): a left fold of + from 0.0
RECURSIVE FSum(_)
FSum(s) == IF Len(s) = 0 THEN Zero
           ELSE FAdd(FSum(SubSeq(s, 1, Len(s) - 1)), s[Len(s)])

\* a variant without the is_empty() guard
mean_spacing_ratio_unguarded(eigenvalues) ==
    LET ratios == level_spacing_ratios(eigenvalues)
    IN  FDiv(FSum(ratios), UsizeToF(Len(ratios)))

mean_spacing_ratio(eigenvalues) ==
    LET ratios == level_spacing_ratios(eigenvalues)
    IN  IF Len(ratios) = 0 THEN Zero
        ELSE FDiv(FSum(ratios), UsizeToF(Len(ratios)))

\* iter().cloned().fold(f64::INFINITY, f64::min) and its mirror
RECURSIVE FoldMin(_)
FoldMin(s) == IF Len(s) = 0 THEN PInf
              ELSE FMin(FoldMin(SubSeq(s, 1, Len(s) - 1)), s[Len(s)])
RECURSIVE FoldMax(_)
FoldMax(s) == IF Len(s) = 0 THEN NInf
              ELSE FMax(FoldMax(SubSeq(s, 1, Len(s) - 1)), s[Len(s)])

\* 1e-10, the threshold of the degenerate range (scaled down: like 1e-10 in
\* f64 it is far above the subnormal quantum times any bin count)
EPS == Fin(MinNormal)

Range(eigenvalues) == FSub(FoldMax(eigenvalues), FoldMin(eigenvalues))
BinWidth(eigenvalues, bins) == FDiv(Range(eigenvalues), UsizeToF(bins))

\* a variant without the clamp idx.min(bins - 1)
BinIndex_Unclamped(ev, min, bin_width, bins) ==
    AsUsize(FFloor(FDiv(FSub(ev, min), bin_width)))

\* the index (0-based) of the bin that counts ev
BinIndex(ev, min, bin_width, bins) ==
    LET idx == AsUsize(FFloor(FDiv(FSub(ev, min), bin_width)))
    IN  Min(idx, bins - 1)

\* the loop `for &ev in eigenvalues`: counts (1-based here) after the first k
RECURSIVE BinCounts(_, _, _, _, _)
BinCounts(eigenvalues, min, bin_width, bins, k) ==
    IF k = 0 THEN [b \in 1..bins |-> 0]
    ELSE LET counts == BinCounts(eigenvalues, min, bin_width, bins, k - 1)
             idx == BinIndex(eigenvalues[k], min, bin_width, bins)
         IN  [counts EXCEPT ![idx + 1] = @ + 1]

\* a variant without the degenerate-range return
empirical_spectral_density_no_degenerate(eigenvalues, bins) ==
    IF Len(eigenvalues) = 0 \/ bins = 0 THEN <<<<>>, <<>>>>
    ELSE LET min == FoldMin(eigenvalues)
             bin_width == BinWidth(eigenvalues, bins)
             counts == BinCounts(eigenvalues, min, bin_width, bins, Len(eigenvalues))
             n == UsizeToF(Len(eigenvalues))
         IN  <<[b \in 1..bins |->
                  FAdd(min, FMul(FAdd(UsizeToF(b - 1), Half), bin_width))],
               [b \in 1..bins |-> FDiv(UsizeToF(counts[b]), FMul(n, bin_width))]>>

empirical_spectral_density(eigenvalues, bins) ==
    IF Len(eigenvalues) = 0 \/ bins = 0 THEN <<<<>>, <<>>>>
    ELSE LET min == FoldMin(eigenvalues)
             max == FoldMax(eigenvalues)
         IN  IF FLt(FAbs(FSub(max, min)), EPS) THEN <<<<min>>, <<One>>>>
             ELSE LET bin_width == BinWidth(eigenvalues, bins)
                      counts == BinCounts(eigenvalues, min, bin_width, bins, Len(eigenvalues))
                      n == UsizeToF(Len(eigenvalues))
                      centers == [b \in 1..bins |->
                                    FAdd(min, FMul(FAdd(UsizeToF(b - 1), Half), bin_width))]
                      densities == [b \in 1..bins |->
                                    FDiv(UsizeToF(counts[b]), FMul(n, bin_width))]
                  IN  <<centers, densities>>

\* the terms 1.0 / (ev - z)
StieltjesTerms(eigenvalues, z) ==
    [k \in 1..Len(eigenvalues) |-> FDiv(One, FSub(eigenvalues[k], z))]

stieltjes_transform(eigenvalues, z) ==
    LET n == UsizeToF(Len(eigenvalues))
    IN  FDiv(FSum(StieltjesTerms(eigenvalues, z)), n)

(***************************************************************************)
(* Matrix samplers                                                         *)
(***************************************************************************)
\* 2.0_f64.sqrt()
SQRT2 == FSqrt(Two)

\* Array2::zeros((rows, cols)), as a sequence of rows
Zeros(rows, cols) == [r \in 1..rows |-> [c \in 1..cols |-> Zero]]

\* m / scalar: every entry divided by the same scalar
DivideBy(m, scalar) ==
    [r \in 1..Len(m) |-> [c \in 1..Len(m[r]) |-> FDiv(m[r][c], scalar)]]
\* m / (n as f64).sqrt()
ScaleBySqrtN(m, n) ==
    CHOOSE res \in {DivideBy(v, w) : v \in {m}, w \in {FSqrt(UsizeToF(n))}} : TRUE

\* x.t(): the p x n transpose of the n x p matrix x
Transpose(x, n, p) == [c \in 1..p |-> [r \in 1..n |-> x[r][c]]]

\* one entry of a matrix product: the sum over k = 1..inner, in order
RECURSIVE DotEntry(_, _, _, _, _)
DotEntry(a, b, r, c, inner) ==
    IF inner = 0 THEN Zero
    ELSE FAdd(DotEntry(a, b, r, c, inner - 1), FMul(a[r][inner], b[inner][c]))

\* a.dot(&b) for a rows x inner and b inner x cols
Dot(a, b, rows, inner, cols) ==
    [r \in 1..rows |-> [c \in 1..cols |-> DotEntry(a, b, r, c, inner)]]

\* a variant that multiplies the other way round: x.dot(&x.t())
WishartProduct_Swapped(x, n, p) == Dot(x, Transpose(x, n, p), n, p, n)

\* x.t().dot(&x)
WishartProduct(x, n, p) == Dot(Transpose(x, n, p), x, p, n, p)

(***************************************************************************)
(* State.  A state holds one call: the entry point fn, its arguments args, *)
(* the position pc in it, and once it has returned (pc = "done") its       *)
(* result ret and whether it divided by zero on the way (divzero).  The    *)
(* samplers run step by step on their locals: the loop indices i and j,    *)
(* the matrices m (sample_goe) and x (sample_wishart), the number draws of *)
(* values taken from the random source so far, and origin, which records   *)
(* for every matrix entry the (0-based) numbers of the draws written to it.*)
(***************************************************************************)
VARIABLES pc, fn, args, ret, divzero, i, j, m, x, draws, origin

vars == <<pc, fn, args, ret, divzero, i, j, m, x, draws, origin>>
locals == <<i, j, m, x, draws, origin>>

\* the longest eigenvalue sequence given to the spacing statistics
MaxLen == 4
\* the longest eigenvalue sequence given to the histogram and the transform
MaxHistLen == 3
\* the largest bin count
MaxBins == 3
\* the largest dimension given to sample_goe
MaxN == 3
\* the largest n and p given to sample_wishart
MaxDim == 2

\* eigenvalues: ordinary values, the extremes of the format, +inf and NaN
EigVals == {Zero, Fin(1), One, F(4, 1), Fin(-MaxFinite), Fin(MaxFinite), PInf, NaN}
RECURSIVE SeqsUpTo(_, _)
SeqsUpTo(S, n) ==
    IF n = 0 THEN {<<>>}
    ELSE LET shorter == SeqsUpTo(S, n - 1)
         IN  shorter \cup {Append(s, v) : s \in {t \in shorter : Len(t) = n - 1}, v \in S}
EigSeqs == SeqsUpTo(EigVals, MaxLen)
HistSeqs == SeqsUpTo(EigVals, MaxHistLen)
ZVals == {Zero, One}
StieltjesSeqs == SeqsUpTo({Zero, One, F(4, 1)}, MaxHistLen)

Ratios == {F(-1, 1), Zero, F(1, 4), F(29, 64), F(1, 2), One, F(2, 1), F(4, 1), PInf, NaN}
Lambdas == {F(-1, 1), Zero, F(1, 2), One, F(2, 1), F(4, 1)}
Sigmas == {F(-1, 1), Zero, F(1, 2), One}

\* the values the standard normal sampler returns: finite
Draws == {F(-1, 1), F(1, 2), F(3, 2)}
\* the same for sample_goe, which draws more often
GoeDraws == {F(-1, 1), F(3, 2)}

\* the divisors of the divisions a pure call performs, on the path it takes
Divisors ==
    CASE fn = "marchenko_pastur_density" ->
           IF FLe(args.ratio, Zero) \/ FLe(args.lambda, Zero) THEN {}
           ELSE LET gamma == EffectiveRatio(args.ratio)
                IN  {args.ratio} \cup
                    (IF \/ FLt(args.lambda, LambdaMinus(gamma, args.sigma_sq))
                        \/ FGt(args.lambda, LambdaPlus(gamma, args.sigma_sq))
                     THEN {}
                     ELSE {FMul(FMul(FMul(FMul(Two, PI), args.sigma_sq), gamma),
                                args.lambda)})
      [] fn = "marchenko_pastur_support" -> {args.ratio}
      [] fn = "wigner_semicircle_density" ->
           LET r == FMul(Two, args.sigma)
           IN  IF FGt(FAbs(args.lambda), r) THEN {} ELSE {FMul(FMul(PI, r), r)}
      [] fn = "level_spacing_ratios" \/ fn = "mean_spacing_ratio" ->
           LET e == args.eigenvalues
               ratios == level_spacing_ratios(e)
           IN  {FMax(FSub(e[k + 2], e[k + 1]), FSub(e[k + 3], e[k + 2])) :
                    k \in {q \in 0..(Len(e) - 3) : SpacingRatioAt(e, q) # <<>>}}
               \cup (IF fn = "mean_spacing_ratio" /\ Len(ratios) > 0
                     THEN {UsizeToF(Len(ratios))} ELSE {})
      [] fn = "empirical_spectral_density" ->
           LET e == args.eigenvalues
           IN  IF Len(e) = 0 \/ args.bins = 0 \/ FLt(FAbs(Range(e)), EPS) THEN {}
               ELSE {UsizeToF(args.bins), BinWidth(e, args.bins),
                     FMul(UsizeToF(Len(e)), BinWidth(e, args.bins))}
      [] fn = "stieltjes_transform" ->
           {FSub(args.eigenvalues[k], args.z) : k \in 1..Len(args.eigenvalues)}
           \cup {UsizeToF(Len(args.eigenvalues))}

NoLocals ==
    /\ i = 0 /\ j = 0 /\ draws = 0
    /\ m = <<>> /\ x = <<>> /\ origin = <<>>

InitDensity ==
    /\ pc = "call" /\ ret = <<>> /\ divzero = FALSE /\ NoLocals
    /\ \/ fn = "marchenko_pastur_density"
          /\ args \in [lambda : Lambdas, ratio : Ratios, sigma_sq : Sigmas]
       \/ fn = "marchenko_pastur_support"
          /\ args \in [ratio : Ratios, sigma_sq : Sigmas]
       \/ fn = "wigner_semicircle_density"
          /\ args \in [lambda : Lambdas, sigma : Sigmas]

InitSpacing ==
    /\ pc = "call" /\ ret = <<>> /\ divzero = FALSE /\ NoLocals
    /\ fn \in {"level_spacing_ratios", "mean_spacing_ratio"}
    /\ args \in [eigenvalues : EigSeqs]

InitHistogram ==
    /\ pc = "call" /\ ret = <<>> /\ divzero = FALSE /\ NoLocals
    /\ fn = "empirical_spectral_density"
    /\ args \in [eigenvalues : HistSeqs, bins : 0..MaxBins]

InitStieltjes ==
    /\ pc = "call" /\ ret = <<>> /\ divzero = FALSE /\ NoLocals
    /\ fn = "stieltjes_transform"
    /\ args \in [eigenvalues : StieltjesSeqs, z : ZVals]

InitGoe ==
    /\ pc = "diag" /\ ret = <<>> /\ divzero = FALSE
    /\ fn = "sample_goe"
    /\ args \in [n : 0..MaxN]
    /\ i = 0 /\ j = 0 /\ draws = 0
    /\ m = Zeros(args.n, args.n)
    /\ origin = [r \in 1..args.n |-> [c \in 1..args.n |-> {}]]
    /\ x = <<>>

InitWishart ==
    /\ pc = "fill" /\ ret = <<>> /\ divzero = FALSE
    /\ fn = "sample_wishart"
    /\ args \in [n : 0..MaxDim, p : 0..MaxDim]
    /\ i = 0 /\ j = 0 /\ draws = 0
    /\ x = Zeros(args.n, args.p)
    /\ origin = [r \in 1..args.n |-> [c \in 1..args.p |-> {}]]
    /\ m = <<>>

Return(value) ==
    /\ ret' = value
    /\ divzero' = (Zero \in Divisors)
    /\ pc' = "done"
    /\ UNCHANGED <<fn, args, locals>>

MarchenkoPasturDensity ==
    /\ pc = "call" /\ fn = "marchenko_pastur_density"
    /\ Return(marchenko_pastur_density(args.lambda, args.ratio, args.sigma_sq))

MarchenkoPasturSupport ==
    /\ pc = "call" /\ fn = "marchenko_pastur_support"
    /\ Return(marchenko_pastur_support(args.ratio, args.sigma_sq))

WignerSemicircleDensity ==
    /\ pc = "call" /\ fn = "wigner_semicircle_density"
    /\ Return(wigner_semicircle_density(args.lambda, args.sigma))

LevelSpacingRatios ==
    /\ pc = "call" /\ fn = "level_spacing_ratios"
    /\ Return(level_spacing_ratios(args.eigenvalues))

MeanSpacingRatio ==
    /\ pc = "call" /\ fn = "mean_spacing_ratio"
    /\ Return(mean_spacing_ratio(args.eigenvalues))

EmpiricalSpectralDensity ==
    /\ pc = "call" /\ fn = "empirical_spectral_density"
    /\ Return(empirical_spectral_density(args.eigenvalues, args.bins))

StieltjesTransform ==
    /\ pc = "call" /\ fn = "stieltjes_transform"
    /\ Return(stieltjes_transform(args.eigenvalues, args.z))

(***************************************************************************)
(* sample_goe, step by step                                                *)
(***************************************************************************)
\* m[[r, c]] = value (0-based r, c), taken from the draw numbered draws
WriteEntry(mat, r, c, value) == [mat EXCEPT ![r + 1][c + 1] = value]
NoteOrigin(org, r, c) == [org EXCEPT ![r + 1][c + 1] = @ \cup {draws}]

\* for i in 0..n { m[[i, i]] = normal.sample(&mut rng) * 2.0_f64.sqrt(); }
GoeDiagonal ==
    /\ pc = "diag" /\ i < args.n
    /\ \E d \in GoeDraws : m' = WriteEntry(m, i, i, FMul(d, SQRT2))
    /\ origin' = NoteOrigin(origin, i, i)
    /\ draws' = draws + 1
    /\ i' = i + 1
    /\ UNCHANGED <<pc, fn, args, ret, divzero, j, x>>

\* the diagonal loop ends; for i in 0..n { for j in (i + 1)..n begins
GoeDiagonalDone ==
    /\ pc = "diag" /\ i = args.n
    /\ pc' = "offdiag"
    /\ i' = 0 /\ j' = 1
    /\ UNCHANGED <<fn, args, ret, divzero, m, x, draws, origin>>

\* a variant that forgets the mirror write m[[j, i]] = val
GoeOffDiagonal_NoMirror ==
    /\ pc = "offdiag" /\ i < args.n /\ j < args.n
    /\ \E val \in GoeDraws : m' = WriteEntry(m, i, j, val)
    /\ origin' = NoteOrigin(origin, i, j)
    /\ draws' = draws + 1
    /\ j' = j + 1
    /\ UNCHANGED <<pc, fn, args, ret, divzero, i, x>>

\* let val = normal.sample(&mut rng); m[[i, j]] = val; m[[j, i]] = val;
GoeOffDiagonal ==
    /\ pc = "offdiag" /\ i < args.n /\ j < args.n
    /\ \E val \in GoeDraws : m' = WriteEntry(WriteEntry(m, i, j, val), j, i, val)
    /\ origin' = NoteOrigin(NoteOrigin(origin, i, j), j, i)
    /\ draws' = draws + 1
    /\ j' = j + 1
    /\ UNCHANGED <<pc, fn, args, ret, divzero, i, x>>

\* a variant whose inner loop is `for j in i..n`: it redraws the diagonal
GoeNextRow_FromDiagonal ==
    /\ pc = "offdiag" /\ i < args.n /\ j >= args.n
    /\ i' = i + 1 /\ j' = i + 1
    /\ UNCHANGED <<pc, fn, args, ret, divzero, m, x, draws, origin>>

\* the inner loop ends: the next i, with j from i + 1
GoeNextRow ==
    /\ pc = "offdiag" /\ i < args.n /\ j >= args.n
    /\ i' = i + 1 /\ j' = i + 2
    /\ UNCHANGED <<pc, fn, args, ret, divzero, m, x, draws, origin>>

\* m / (n as f64).sqrt()
GoeScale ==
    /\ pc = "offdiag" /\ i = args.n
    /\ ret' = ScaleBySqrtN(m, args.n)
    /\ divzero' = (args.n > 0 /\ FSqrt(UsizeToF(args.n)) = Zero)
    /\ pc' = "done"
    /\ UNCHANGED <<fn, args, locals>>

(***************************************************************************)
(* sample_wishart, step by step                                            *)
(***************************************************************************)
\* Array2::from_shape_fn((n, p), |_| normal.sample(&mut rng)): one draw per
\* entry, here in row-major order
WishartFill ==
    /\ pc = "fill" /\ draws < args.n * args.p
    /\ \E d \in Draws : x' = WriteEntry(x, i, j, d)
    /\ origin' = NoteOrigin(origin, i, j)
    /\ draws' = draws + 1
    /\ IF j + 1 < args.p THEN i' = i /\ j' = j + 1 ELSE i' = i + 1 /\ j' = 0
    /\ UNCHANGED <<pc, fn, args, ret, divzero, m>>

\* x.t().dot(&x)
WishartDot ==
    /\ pc = "fill" /\ draws = args.n * args.p
    /\ ret' = WishartProduct(x, args.n, args.p)
    /\ pc' = "done"
    /\ UNCHANGED <<fn, args, divzero, locals>>

NextDensity == MarchenkoPasturDensity \/ MarchenkoPasturSupport \/ WignerSemicircleDensity
NextSpacing == LevelSpacingRatios \/ MeanSpacingRatio
NextHistogram == EmpiricalSpectralDensity
NextStieltjes == StieltjesTransform
NextGoe == GoeDiagonal \/ GoeDiagonalDone \/ GoeOffDiagonal \/ GoeNextRow \/ GoeScale
NextWishart == WishartFill \/ WishartDot

\* the pure entry points
Init == InitDensity \/ InitSpacing \/ InitHistogram \/ InitStieltjes
Next == NextDensity \/ NextSpacing \/ NextHistogram \/ NextStieltjes
Spec == Init /\ [][Next]_vars

SpecDensity == InitDensity /\ [][NextDensity]_vars
SpecSpacing == InitSpacing /\ [][NextSpacing]_vars
SpecHistogram == InitHistogram /\ [][NextHistogram]_vars
SpecGoe == InitGoe /\ [][NextGoe]_vars
\* a call runs to its end: the loops are sequential code
FairSpecGoe == SpecGoe /\ WF_vars(NextGoe)
SpecWishart == InitWishart /\ [][NextWishart]_vars

(***************************************************************************)
(* Properties                                                              *)
(***************************************************************************)
IsSquare(mat, size) == Len(mat) = size /\ \A r \in 1..size : Len(mat[r]) = size
IsSymmetric(mat, size) == \A r, c \in 1..size : FEq(mat[r][c], mat[c][r])

\* C1: the matrix sample_goe(n) returns is n x n and exactly symmetric,
\* m[i][j] == m[j][i] in f64 for all i, j, whatever the random source returns.
C1_GoeSymmetric ==
    (fn = "sample_goe" /\ pc = "done") =>
        IsSquare(ret, args.n) /\ IsSymmetric(ret, args.n)

\* a returned 3 x 3 matrix whose off-diagonal entries are not all alike
C1_Witness ==
    /\ fn = "sample_goe" /\ pc = "done" /\ args.n = 3
    /\ ret[1][2] # ret[1][3] /\ ret[1][2] # ret[2][3]

\* the number (0-based) of the draw that sample_goe writes to entry (r, c),
\* r <= c, 0-based: the diagonal first, then the pairs r < c in row-major order
PairRank(n, r, c) == r * n - (r * (r + 1)) \div 2 + (c - r - 1)
GoeDrawOf(n, r, c) == IF r = c THEN r ELSE n + PairRank(n, r, c)

GoeDrawsAtEnd ==
    (fn = "sample_goe" /\ pc = "done") =>
        /\ draws = args.n + (args.n * (args.n - 1)) \div 2
        /\ \A r, c \in 0..(args.n - 1) :
              /\ origin[r + 1][c + 1] = {GoeDrawOf(args.n, Min(r, c), IF r < c THEN c ELSE r)}
              /\ r = c => m[r + 1][r + 1] \in {FMul(d, SQRT2) : d \in GoeDraws}
              /\ r # c => m[r + 1][c + 1] \in GoeDraws

\* no entry is ever written from a second draw, and draws are numbered in order
GoeDrawsSoFar ==
    fn = "sample_goe" =>
        \A r, c \in 1..args.n :
            /\ Cardinality(origin[r][c]) <= 1
            /\ \A k \in origin[r][c] : k < draws

\* C10: sample_goe(n) takes exactly n + n(n-1)/2 draws: the first n go to the
\* diagonal in index order, each scaled by sqrt(2), then one draw per pair
\* i < j in row-major order goes to (i,j) and (j,i); every entry is written
\* from exactly one draw; and the call ends for every n.
C10_GoeDraws == [](GoeDrawsAtEnd /\ GoeDrawsSoFar) /\ <>(pc = "done")

\* a call for n = 3 at its end, after six draws
C10_Witness == fn = "sample_goe" /\ pc = "done" /\ args.n = 3 /\ draws = 6

\* the (a, b) entry of X^T X written out: the sum over the rows k of X
RECURSIVE ColumnProduct(_, _, _, _)
ColumnProduct(mat, a, b, k) ==
    IF k = 0 THEN Zero
    ELSE FAdd(ColumnProduct(mat, a, b, k - 1), FMul(mat[k][a], mat[k][b]))

\* C9: sample_wishart(n, p) returns the p x p matrix X^T X of the n x p matrix
\* X of draws, and it is symmetric, also when n differs from p.
C9_WishartShape ==
    (fn = "sample_wishart" /\ pc = "done") =>
        /\ IsSquare(ret, args.p)
        /\ IsSymmetric(ret, args.p)
        /\ \A a, b \in 1..args.p : ret[a][b] = ColumnProduct(x, a, b, args.n)
        /\ draws = args.n * args.p

\* a 2 x 2 result from a 1 x 2 matrix of draws, with a non-zero off-diagonal
C9_Witness ==
    /\ fn = "sample_wishart" /\ pc = "done"
    /\ args.n = 1 /\ args.p = 2
    /\ ret[1][2] # Zero /\ ret[1][1] # ret[2][2]

AllFinite(seq) == \A k \in 1..Len(seq) : IsFinite(seq[k])
InUnitInterval(r) == FLe(Zero, r) /\ FLe(r, One)
InHalfOpenUnitInterval(r) == FGt(r, Zero) /\ FLe(r, One)

\* the indices (0-based) at which both spacings are strictly positive
PositiveSpacings(e) ==
    {q \in 0..(Len(e) - 3) :
        FGt(FSub(e[q + 2], e[q + 1]), Zero) /\ FGt(FSub(e[q + 3], e[q + 2]), Zero)}
\* min(s1, s2) / max(s1, s2) at index q
RatioAt(e, q) ==
    FDiv(FMin(FSub(e[q + 2], e[q + 1]), FSub(e[q + 3], e[q + 2])),
         FMax(FSub(e[q + 2], e[q + 1]), FSub(e[q + 3], e[q + 2])))
\* the k-th index of PositiveSpacings, in increasing order
KthIndex(e, k) ==
    CHOOSE q \in PositiveSpacings(e) :
        Cardinality({t \in PositiveSpacings(e) : t < q}) = k - 1
StrictlyIncreasing(e) == \A k \in 1..(Len(e) - 1) : FLt(e[k], e[k + 1])

\* what level_spacing_ratios emits, and how many
SpacingRatiosEmitted ==
    LET e == args.eigenvalues
    IN  /\ Len(ret) = Cardinality(PositiveSpacings(e))
        /\ \A k \in 1..Len(ret) : ret[k] = RatioAt(e, KthIndex(e, k))
        /\ Len(ret) <= (IF Len(e) < 2 THEN 0 ELSE Len(e) - 2)
        /\ (Len(e) >= 2 /\ StrictlyIncreasing(e)) => Len(ret) = Len(e) - 2

\* C5 as stated: level_spacing_ratios emits min(s1,s2)/max(s1,s2) exactly for
\* the indices with two strictly positive spacings, in order, and every value
\* it returns lies in (0,1].
C5_RatiosInHalfOpenInterval ==
    (fn = "level_spacing_ratios" /\ pc = "done") =>
        /\ SpacingRatiosEmitted
        /\ \A k \in 1..Len(ret) : InHalfOpenUnitInterval(ret[k])

\* C5 amended: level_spacing_ratios emits the f64 quotient
\* min(s1,s2)/max(s1,s2) exactly for the indices with two strictly positive
\* spacings, in order; the output has at most len-2 elements and exactly len-2
\* for a strictly increasing input; for an input of finite values every
\* returned value lies in [0,1] (0 when the quotient underflows).
C5_RatiosInClosedInterval ==
    (fn = "level_spacing_ratios" /\ pc = "done") =>
        /\ SpacingRatiosEmitted
        /\ AllFinite(args.eigenvalues) => \A k \in 1..Len(ret) : InUnitInterval(ret[k])

\* a finite input whose only ratio underflows to 0, and one with two ratios
C5_Witness ==
    /\ fn = "level_spacing_ratios" /\ pc = "done"
    /\ AllFinite(args.eigenvalues)
    /\ Len(args.eigenvalues) = 3
    /\ ret = <<Zero>>

\* C6 as stated: level_spacing_ratios is empty below 3 elements;
\* mean_spacing_ratio returns 0 exactly when the ratio sequence is empty, and
\* otherwise the arithmetic mean of the ratios, a value in (0,1].
C6_ZeroExactlyWhenEmpty ==
    /\ (fn = "level_spacing_ratios" /\ pc = "done" /\ Len(args.eigenvalues) < 3)
          => ret = <<>>
    /\ (fn = "mean_spacing_ratio" /\ pc = "done") =>
          LET ratios == level_spacing_ratios(args.eigenvalues)
          IN  /\ (ret = Zero) <=> (ratios = <<>>)
              /\ ratios # <<>> =>
                    /\ ret = FDiv(FSum(ratios), UsizeToF(Len(ratios)))
                    /\ InHalfOpenUnitInterval(ret)

\* C6 amended: level_spacing_ratios is empty below 3 elements;
\* mean_spacing_ratio returns 0 whenever the ratio sequence is empty, and
\* otherwise the f64 mean of the ratios (their sum divided by their number),
\* which for an input of finite values lies in [0,1]: it is 0 when every
\* ratio has underflowed to 0.
C6_MeanOrSentinel ==
    /\ (fn = "level_spacing_ratios" /\ pc = "done" /\ Len(args.eigenvalues) < 3)
          => ret = <<>>
    /\ (fn = "mean_spacing_ratio" /\ pc = "done") =>
          LET ratios == level_spacing_ratios(args.eigenvalues)
          IN  /\ ratios = <<>> => ret = Zero
              /\ ratios # <<>> =>
                    /\ ret = FDiv(FSum(ratios), UsizeToF(Len(ratios)))
                    /\ AllFinite(args.eigenvalues) => InUnitInterval(ret)

\* the mean of two different ratios of a finite input
C6_Witness ==
    /\ fn = "mean_spacing_ratio" /\ pc = "done"
    /\ AllFinite(args.eigenvalues)
    /\ LET ratios == level_spacing_ratios(args.eigenvalues)
       IN  Len(ratios) = 2 /\ ratios[1] # ratios[2] /\ ret # Zero /\ ret # One

\* the locals of empirical_spectral_density on its histogram path
HistMin == FoldMin(args.eigenvalues)
HistMax == FoldMax(args.eigenvalues)
HistBinWidth == BinWidth(args.eigenvalues, args.bins)
HistCounts ==
    BinCounts(args.eigenvalues, HistMin, HistBinWidth, args.bins, Len(args.eigenvalues))
HistDone == fn = "empirical_spectral_density" /\ pc = "done"
\* non-empty input, bins >= 1 and max - min at least the threshold
HistogramPath ==
    /\ HistDone
    /\ Len(args.eigenvalues) >= 1 /\ args.bins >= 1
    /\ FLe(EPS, Range(args.eigenvalues))

RECURSIVE SumCounts(_, _)
SumCounts(counts, b) == IF b = 0 THEN 0 ELSE SumCounts(counts, b - 1) + counts[b]

\* sum_i density_i * bin_width is 1 when evaluated in f64, left to right
MassIsOneInF64 ==
    FSum([b \in 1..args.bins |-> FMul(ret[2][b], HistBinWidth)]) = One
\* sum_i density_i * bin_width is 1 over the reals, for the f64 values returned
RECURSIVE ExactMass(_, _, _)
ExactMass(densities, bw, b) ==
    IF b = 0 THEN 0 ELSE ExactMass(densities, bw, b - 1) + densities[b][2] * bw[2]
MassIsOneExactly ==
    /\ IsFinite(HistBinWidth) /\ \A b \in 1..args.bins : IsFinite(ret[2][b])
    /\ ExactMass(ret[2], HistBinWidth, args.bins) = Scale * Scale

\* bins centers, bins densities, every eigenvalue counted once, and
\* density_i = c_i / (N * bin_width) as f64 operations
HistogramShape ==
    /\ Len(ret[1]) = args.bins /\ Len(ret[2]) = args.bins
    /\ SumCounts(HistCounts, args.bins) = Len(args.eigenvalues)
    /\ \A b \in 1..args.bins :
          ret[2][b] = FDiv(UsizeToF(HistCounts[b]),
                           FMul(UsizeToF(Len(args.eigenvalues)), HistBinWidth))

C3_MaxInLastBin ==
    HistogramPath =>
        \A k \in 1..Len(args.eigenvalues) :
            LET ev == args.eigenvalues[k]
                idx == BinIndex(ev, HistMin, HistBinWidth, args.bins)
            IN  /\ idx \in 0..(args.bins - 1)
                /\ FEq(ev, HistMax) => idx = args.bins - 1
                /\ FEq(ev, HistMin) => idx = 0

\* C4: empirical_spectral_density returns two empty sequences when the input
\* is empty or bins = 0, also for an all-equal input; otherwise, when
\* max - min is below the threshold, it returns ([min], [1.0]) whatever bins
\* is, and an input of equal finite values is such a case; in neither case is
\* there a division by zero.
C4_DegenerateInputs ==
    HistDone =>
        LET e == args.eigenvalues
        IN  /\ (Len(e) = 0 \/ args.bins = 0) => (ret = <<<<>>, <<>>>> /\ ~divzero)
            /\ (Len(e) > 0 /\ args.bins > 0 /\ FLt(FAbs(Range(e)), EPS)) =>
                  (ret = <<<<HistMin>>, <<One>>>> /\ ~divzero)
            /\ (Len(e) > 0 /\ args.bins > 0 /\ IsFinite(e[1])
                    /\ \A k \in 1..Len(e) : e[k] = e[1]) =>
                  ret = <<<<e[1]>>, <<One>>>>

\* several equal finite values with more than one bin requested
C4_Witness ==
    /\ HistDone
    /\ Len(args.eigenvalues) >= 2 /\ args.bins >= 2
    /\ IsFinite(args.eigenvalues[1])
    /\ \A k \in 1..Len(args.eigenvalues) : args.eigenvalues[k] = args.eigenvalues[1]
    /\ ret = <<<<args.eigenvalues[1]>>, <<One>>>>

SupportDone == fn = "marchenko_pastur_support" /\ pc = "done"
MpDensityDone == fn = "marchenko_pastur_density" /\ pc = "done"
\* 1.0 / ratio
Reciprocal(ratio) == FDiv(One, ratio)

\* C7 as stated: for every ratio > 0 and every sigma_sq,
\* marchenko_pastur_support(ratio, sigma_sq) equals
\* marchenko_pastur_support(1/ratio, sigma_sq), the effective ratio
\* min(ratio, 1/ratio) is in (0,1], and marchenko_pastur_density folds the
\* ratio the same way.
C7_FoldOverEveryRatio ==
    /\ (SupportDone /\ FGt(args.ratio, Zero)) =>
          /\ ret = marchenko_pastur_support(Reciprocal(args.ratio), args.sigma_sq)
          /\ InHalfOpenUnitInterval(EffectiveRatio(args.ratio))
    /\ (MpDensityDone /\ FGt(args.ratio, Zero)) =>
          ret = marchenko_pastur_density(args.lambda, Reciprocal(args.ratio),
                                         args.sigma_sq)

\* C7 amended: for every finite ratio >= 1, and for every ratio in (0,1)
\* whose reciprocal converts back (1/(1/ratio) evaluates to ratio in f64), and
\* every sigma_sq, marchenko_pastur_support(ratio, sigma_sq) equals
\* marchenko_pastur_support(1/ratio, sigma_sq), and marchenko_pastur_density
\* agrees in the same way; the effective ratio min(ratio, 1/ratio) is in (0,1]
\* for every finite ratio > 0.
C7_FoldOverRoundTrip ==
    LET folds == /\ IsFinite(args.ratio)
                 /\ \/ FLe(One, args.ratio)
                    \/ /\ FGt(args.ratio, Zero)
                       /\ Reciprocal(Reciprocal(args.ratio)) = args.ratio
    IN  /\ (SupportDone /\ folds) =>
              ret = marchenko_pastur_support(Reciprocal(args.ratio), args.sigma_sq)
        /\ (SupportDone /\ FGt(args.ratio, Zero) /\ IsFinite(args.ratio)) =>
              InHalfOpenUnitInterval(EffectiveRatio(args.ratio))
        /\ (MpDensityDone /\ folds) =>
              ret = marchenko_pastur_density(args.lambda, Reciprocal(args.ratio),
                                             args.sigma_sq)

\* the support for ratio 4 is the support for ratio 1/4: [1/4, 9/4]
C7_Witness ==
    /\ SupportDone
    /\ args.ratio = F(4, 1) /\ args.sigma_sq = One
    /\ ret = <<F(1, 4), F(9, 4)>>
    /\ ret = marchenko_pastur_support(F(1, 4), One)

\* the f64 values among the arguments of the call
ArgValues ==
    CASE fn = "marchenko_pastur_density" -> {args.lambda, args.ratio, args.sigma_sq}
      [] fn = "marchenko_pastur_support" -> {args.ratio, args.sigma_sq}
      [] fn = "wigner_semicircle_density" -> {args.lambda, args.sigma}
      [] fn = "stieltjes_transform" ->
            {args.z} \cup {args.eigenvalues[k] : k \in 1..Len(args.eigenvalues)}
      [] OTHER -> {args.eigenvalues[k] : k \in 1..Len(args.eigenvalues)}
\* the f64 values in the result of the call
RetValues ==
    CASE fn = "marchenko_pastur_support" -> {ret[1], ret[2]}
      [] fn = "level_spacing_ratios" -> {ret[k] : k \in 1..Len(ret)}
      [] fn = "empirical_spectral_density" ->
            {ret[1][k] : k \in 1..Len(ret[1])} \cup {ret[2][k] : k \in 1..Len(ret[2])}
      [] OTHER -> {ret}
\* stieltjes_transform called with z equal to one of the eigenvalues
OnAnEigenvalue ==
    /\ fn = "stieltjes_transform"
    /\ \E k \in 1..Len(args.eigenvalues) : FEq(args.eigenvalues[k], args.z)

\* C8 as stated: a call with finite arguments divides by zero or returns an
\* undefined value (NaN) only if it is stieltjes_transform with z equal to one
\* of the eigenvalues.
C8_OnlyStieltjesOnEigenvalue ==
    (pc = "done" /\ \A v \in ArgValues : IsFinite(v)) =>
        ((divzero \/ NaN \in RetValues) => OnAnEigenvalue)

=============================================================================
